---- MODULE Spec2Model ----
(***************************************************************************)
(* Task collection consistency engine of the todo application:             *)
(*   - the remote collection (Supabase table "todos") and its gateway,     *)
(*   - the synchronized store (react-query cache "todos" + mutation hooks),*)
(*   - the ordering engine (drag reorder) and the plan merge engine.       *)
(* Record ids are positive integers (well-formed uuids); created_at grows  *)
(* with the id, so "created_at descending" is "id descending".             *)
(* Text is a sequence of one-character strings.                            *)
(***************************************************************************)
EXTENDS Integers, Sequences, FiniteSets, TLC

VARIABLES
    user,      \* TRUE iff supabase.auth.getUser() yields an owner principal
    remote,    \* the durable collection: [existing ids -> record]
    nextId,    \* id the gateway gives to the next inserted row
    rver,      \* number of row changes the remote collection has seen
    snapshot,  \* useTodos().data: the last delivered list of records
    sver,      \* value of rver when the delivered list was read
    query,     \* state of the "todos" query (fetch in flight, last outcome)
    ops,       \* every mutation issued so far, with its progress
    acts,      \* number of user actions taken
    filter,    \* status filter of the page
    searchQuery,  \* search box of the page
    selectedTag,  \* selected tag of the page ("" when none)
    plan,      \* AIPanel.optimizedPlan (<<>> when none)
    apply,     \* progress of TodoPage.handleApplyOptimize
    panel,     \* AIPanel: view, submitted text, parsedTodo
    ai,        \* progress of TodoPage.handleAiParseAndAdd
    idleDrops  \* number of drags handleDragEnd has let pass without a move

vars == <<user, remote, nextId, rver, snapshot, sver, query, ops, acts, filter, searchQuery, selectedTag, plan, apply, panel, ai, idleDrops>>

\* state of the page and of the assistant panel
ui == <<filter, searchQuery, selectedTag, plan, apply, panel, ai, idleDrops>>

\* state of the assistant's single-task intake
intake == <<panel, ai>>

----------------------------------------------------------------------------
(* Bounds *)

MaxIds == 3        \* records of the owner when the page opens
MaxActs == 2       \* user actions per behaviour
MaxPending == 1    \* mutations of the page awaiting the gateway when the user starts another

----------------------------------------------------------------------------
(* Task records *)

TitleMax == 200
BadId == 0
DefaultOrder == 0

Ids == 1..MaxIds
InitCount == MaxIds - 1     \* records present at the start
NoDue == "null"
SomeDue == "2024-06-02"

IsUuid(id) == id >= 1

Str(n, c) == [i \in 1..n |-> c]

RECURSIVE TrimStart(_)
TrimStart(s) == IF s # <<>> /\ Head(s) = " " THEN TrimStart(Tail(s)) ELSE s

RECURSIVE TrimEnd(_)
TrimEnd(s) ==
    IF s # <<>> /\ s[Len(s)] = " " THEN TrimEnd(SubSeq(s, 1, Len(s) - 1)) ELSE s

Trim(s) == TrimEnd(TrimStart(s))

ValidTitle(t) == Len(t) >= 1 /\ Len(t) <= TitleMax

Blank ==
    [title |-> <<"a">>, completed |-> FALSE, due_at |-> NoDue, remind |-> FALSE,
     tags |-> {}, order |-> DefaultOrder]

Fields == {"title", "completed", "due_at", "remind", "tags", "order"}

\* row values after UPDATE ... SET f = v.f for every f in set
SetFields(r, set, v) ==
    [title     |-> IF "title" \in set THEN v.title ELSE r.title,
     completed |-> IF "completed" \in set THEN v.completed ELSE r.completed,
     due_at    |-> IF "due_at" \in set THEN v.due_at ELSE r.due_at,
     remind    |-> IF "remind" \in set THEN v.remind ELSE r.remind,
     tags      |-> IF "tags" \in set THEN v.tags ELSE r.tags,
     order     |-> IF "order" \in set THEN v.order ELSE r.order]

WithId(id, r) ==
    [id |-> id, title |-> r.title, completed |-> r.completed, due_at |-> r.due_at,
     remind |-> r.remind, tags |-> r.tags, order |-> r.order]

----------------------------------------------------------------------------
(* fetchTodos: rows ordered by "order" ascending, then created_at descending *)

\* ties broken oldest first
BeforeOldestFirst(rem, a, b) ==
    \/ rem[a].order < rem[b].order
    \/ rem[a].order = rem[b].order /\ a < b

\* ids are handed out in creation order: a larger id is a later created_at
Before(rem, a, b) ==
    \/ rem[a].order < rem[b].order
    \/ rem[a].order = rem[b].order /\ a > b

RECURSIVE SortIds(_, _)
SortIds(rem, S) ==
    IF S = {} THEN <<>>
    ELSE LET m == CHOOSE a \in S : \A b \in S \ {a} : Before(rem, a, b)
         IN <<m>> \o SortIds(rem, S \ {m})

\* row level security: without a principal no row is visible
ListRows(rem, u) ==
    IF u THEN LET s == SortIds(rem, DOMAIN rem)
              IN [i \in 1..Len(s) |-> WithId(s[i], rem[s[i]])]
    ELSE <<>>

TodoSchemaOk(r) == ValidTitle(r.title)

----------------------------------------------------------------------------
(* Mutations: one entry of ops per call of a mutation hook.                 *)
(*   pc     "auth"    awaiting supabase.auth.getUser()                      *)
(*          "gw"      awaiting the gateway's answers to its requests        *)
(*          "refetch" mutationFn resolved, onSuccess awaits the refetch     *)
(*          "done"    settled                                               *)
(*   writes the requests sent to the gateway, each "sent", "applied",       *)
(*          "norow" (answered without error, no row matched) or "failed"    *)
(*   auth   a user lookup was made;  gw  number of gateway requests made    *)

Write(id, op, set, v) == [id |-> id, op |-> op, set |-> set, v |-> v, st |-> "sent"]

\* handleApplyOptimize not running
IdleApply == [st |-> "idle", queue |-> <<>>, wait |-> 0]

\* JSON values: k is the type ("absent" for a property the object lacks),
\* s the characters of a string or the elements of an array, b a boolean
JAbsent == [k |-> "absent", s |-> <<>>, b |-> FALSE]
JNull == [k |-> "null", s |-> <<>>, b |-> FALSE]
JStr(x) == [k |-> "string", s |-> x, b |-> FALSE]
JArr(x) == [k |-> "array", s |-> x, b |-> FALSE]
JBool(x) == [k |-> "boolean", s |-> <<>>, b |-> x]

\* a decoded document: k is "object", "null" or "SyntaxError" (no document)
JDoc(k, title, tags, due, remind) ==
    [k |-> k, title |-> title, tags |-> tags, due_at |-> due, remind |-> remind]
JObject(title, tags, due, remind) == JDoc("object", title, tags, due, remind)
JNullDoc == JDoc("null", JAbsent, JAbsent, JAbsent, JAbsent)
NoJson == JDoc("SyntaxError", JAbsent, JAbsent, JAbsent, JAbsent)

\* a draft with nothing in it
NoDraft == [title |-> JAbsent, tags |-> JAbsent, due_at |-> JAbsent, remind |-> JAbsent]

\* AIPanel as mounted: idle view, nothing submitted, parsedTodo null, no
\* brief text. mode is the branch handleSubmit took, todos the todos prop it
\* passed on, called whether it reached the generation service, text the
\* service's answer, summary the summary of optimizedPlan (its items are
\* the variable plan).
IdlePanel == [view |-> "idle", raw |-> <<>>, gen |-> "none", parsedTodo |-> NoDraft, made |-> <<>>,
              mode |-> "none", todos |-> <<>>, called |-> FALSE, text |-> <<>>,
              briefText |-> <<>>, summary |-> <<>>]

\* handleAiParseAndAdd not running
IdleAi == [st |-> "idle", raw |-> <<>>, text |-> <<>>, gen |-> "none", json |-> NoJson,
           perr |-> "none", parsedTodo |-> NoDraft, made |-> <<>>, wait |-> 0,
           thrown |-> "none"]

Op(kind, id, hasTitle, title, pairs) ==
    [kind |-> kind, src |-> "api", id |-> id, hasTitle |-> hasTitle, title |-> title,
     pairs |-> pairs, writes |-> <<>>, pc |-> "done", result |-> "pending",
     auth |-> FALSE, gw |-> 0, wver |-> 0,
     todos |-> <<>>, view |-> <<>>, active |-> 0, over |-> 0, items |-> <<>>]

Rejected(o) == [o EXCEPT !.pc = "done", !.result = "ValidationError"]

Sent(o, ws) == [o EXCEPT !.pc = "gw", !.writes = ws, !.gw = Len(ws)]

\* createTodo up to its first await
CreateTodo(input) ==
    LET o == Op("create", 0, TRUE, input.title, <<>>)
    IN IF ~ValidTitle(input.title) THEN Rejected(o)
       ELSE [o EXCEPT !.pc = "auth", !.auth = TRUE,
                      !.writes = <<Write(0, "insert", Fields,
                                    [Blank EXCEPT !.title = Trim(input.title),
                                                  !.due_at = input.due_at,
                                                  !.remind = input.remind])>>]

\* createTodo after getUser() answered
CreateTodoAuthed(o, u) ==
    IF u THEN [o EXCEPT !.pc = "gw", !.gw = 1]
    ELSE [o EXCEPT !.pc = "done", !.result = "NotAuthenticated", !.writes = <<>>]

\* updateTodo
UpdateTodo(input) ==
    LET o == Op("update", input.id, "title" \in input.set, input.v.title, <<>>)
    IN IF ~IsUuid(input.id) \/ ("title" \in input.set /\ ~ValidTitle(input.v.title))
       THEN Rejected(o)
       ELSE Sent(o, <<Write(input.id, "update", input.set, input.v)>>)

\* a toggle that writes the whole row back
ToggleTodoWholeRow(id, completed) ==
    LET o == Op("toggle", id, FALSE, <<>>, <<>>)
    IN IF ~IsUuid(id) THEN Rejected(o)
       ELSE Sent(o, <<Write(id, "update", Fields, [Blank EXCEPT !.completed = completed])>>)

\* toggleTodo
ToggleTodo(id, completed) ==
    LET o == Op("toggle", id, FALSE, <<>>, <<>>)
    IN IF ~IsUuid(id) THEN Rejected(o)
       ELSE Sent(o, <<Write(id, "update", {"completed"}, [Blank EXCEPT !.completed = completed])>>)

\* deleteTodo
DeleteTodo(id) ==
    LET o == Op("delete", id, FALSE, <<>>, <<>>)
    IN IF ~IsUuid(id) THEN Rejected(o)
       ELSE Sent(o, <<Write(id, "delete", {}, Blank)>>)

\* a reorder that writes the whole row back
ReorderTodosWholeRow(todos) ==
    LET o == Op("reorder", 0, FALSE, <<>>, todos)
    IN Sent(o, [i \in 1..Len(todos) |->
                  Write(todos[i].id, "update", Fields, [Blank EXCEPT !.order = todos[i].order])])

\* reorderTodos: one update request per pair, all sent before the first answer
ReorderTodos(todos) ==
    LET o == Op("reorder", 0, FALSE, <<>>, todos)
    IN Sent(o, [i \in 1..Len(todos) |->
                  Write(todos[i].id, "update", {"order"}, [Blank EXCEPT !.order = todos[i].order])])

\* a reorderTodos that throws on an error answer like the other mutations
ThrowsOnAnyError(o) == \E j \in 1..Len(o.writes) : o.writes[j].st = "failed"

\* the mutation function throws on an error answer (reorderTodos never looks)
Throws(o) == o.kind # "reorder" /\ \E j \in 1..Len(o.writes) : o.writes[j].st = "failed"

----------------------------------------------------------------------------
(* The "todos" query *)

IdleQuery == [st |-> "idle", ok |-> TRUE, data |-> <<>>, ver |-> 0, partial |-> {}, failed |-> FALSE]

\* an onSuccess that leaves the query alone
InvalidateNothing(q) == q

\* qc.invalidateQueries: refetch, dropping a fetch already in flight
Invalidate(q) == [IdleQuery EXCEPT !.st = "fetching", !.failed = q.failed]

\* a reorder has some of its rows written and others still on their way
PartialReorder ==
    {i \in 1..Len(ops) :
        /\ ops[i].kind = "reorder"
        /\ \E j \in 1..Len(ops[i].writes) : ops[i].writes[j].st = "applied"
        /\ \E j \in 1..Len(ops[i].writes) : ops[i].writes[j].st = "sent"}

----------------------------------------------------------------------------
(* Inputs of the entry points *)

TitleInputs == {<<>>, <<" ">>, <<"a">>, Str(TitleMax + 1, "a")}

CreateInputs == {[title |-> t, due_at |-> NoDue, remind |-> FALSE] : t \in TitleInputs}

\* a malformed id and the ids of the records present at the start
IdInputs == {BadId} \cup 1..InitCount

UpdateInputs ==
    {[id |-> id, set |-> {"title"}, v |-> [Blank EXCEPT !.title = t]] :
        id \in IdInputs, t \in {<<>>, <<"b">>}}
    \cup {[id |-> id, set |-> {"due_at", "remind"},
           v |-> [Blank EXCEPT !.due_at = SomeDue, !.remind = TRUE]] : id \in IdInputs}

\* lists of (id, order) pairs over distinct ids
ReorderInputs ==
    {<<[id |-> x, order |-> 0]>> : x \in IdInputs}
    \cup {<<[id |-> p[1], order |-> 0], [id |-> p[2], order |-> 1]>> :
            p \in {q \in IdInputs \X IdInputs : q[1] # q[2]}}

----------------------------------------------------------------------------
\* a collection of n records in creation order, c[i] telling which are completed
InitRemote(n, c) ==
    [i \in 1..n |->
        [Blank EXCEPT !.order = i - 1, !.completed = c[i],
                      !.title = IF i = 1 THEN <<"b">> ELSE <<"A", "b">>,
                      !.tags = IF i = 1 THEN {} ELSE {"x"}]]

Init ==
    /\ user \in BOOLEAN
    /\ \E c \in [1..InitCount -> BOOLEAN] : remote = InitRemote(InitCount, c)
    /\ nextId = InitCount + 1
    /\ rver = 0
    /\ snapshot = ListRows(remote, user)
    /\ sver = 0
    /\ query = IdleQuery
    /\ ops = <<>>
    /\ acts = 0
    /\ filter = "all"
    /\ searchQuery = <<>>
    /\ selectedTag = ""
    /\ plan = <<>>
    /\ apply = IdleApply
    /\ panel = IdlePanel
    /\ ai = IdleAi
    /\ idleDrops = 0

Issue(o) ==
    /\ acts < MaxActs
    /\ acts' = acts + 1
    /\ ops' = Append(ops, o)

CallCreate(input) ==
    /\ Issue(CreateTodo(input))
    /\ UNCHANGED <<user, remote, nextId, rver, snapshot, sver, query, ui>>

CallUpdate(input) ==
    /\ Issue(UpdateTodo(input))
    /\ UNCHANGED <<user, remote, nextId, rver, snapshot, sver, query, ui>>

CallToggle(id, completed) ==
    /\ Issue(ToggleTodo(id, completed))
    /\ UNCHANGED <<user, remote, nextId, rver, snapshot, sver, query, ui>>

CallDelete(id) ==
    /\ Issue(DeleteTodo(id))
    /\ UNCHANGED <<user, remote, nextId, rver, snapshot, sver, query, ui>>

CallReorder(todos) ==
    /\ Issue(ReorderTodos(todos))
    /\ UNCHANGED <<user, remote, nextId, rver, snapshot, sver, query, ui>>

\* supabase.auth.getUser() answers a createTodo
AuthReply(i) ==
    /\ ops[i].pc = "auth"
    /\ ops' = [ops EXCEPT ![i] = CreateTodoAuthed(ops[i], user)]
    /\ UNCHANGED <<user, remote, nextId, rver, snapshot, sver, query, acts, ui>>

\* the remote collection after request w is carried out
Applies(w) ==
    CASE w.op = "insert" -> TRUE
      [] OTHER -> user /\ w.id \in DOMAIN remote

RemoteAfter(w) ==
    CASE w.op = "insert" ->
            [i \in DOMAIN remote \cup {nextId} |-> IF i = nextId THEN w.v ELSE remote[i]]
      [] w.op = "delete" -> [i \in DOMAIN remote \ {w.id} |-> remote[i]]
      [] OTHER -> [remote EXCEPT ![w.id] = SetFields(remote[w.id], w.set, w.v)]

\* the gateway carries out request j of mutation i and answers without error
GatewayApply(i, j) ==
    LET w == ops[i].writes[j] IN
    /\ ops[i].pc = "gw"
    /\ w.st = "sent"
    /\ w.op = "insert" \/ IsUuid(w.id)
    /\ IF Applies(w)
       THEN /\ remote' = RemoteAfter(w)
            /\ rver' = rver + 1
            /\ nextId' = IF w.op = "insert" THEN nextId + 1 ELSE nextId
            /\ ops' = [ops EXCEPT ![i].writes[j].st = "applied", ![i].wver = rver + 1]
       ELSE /\ ops' = [ops EXCEPT ![i].writes[j].st = "norow"]
            /\ UNCHANGED <<remote, rver, nextId>>
    /\ UNCHANGED <<user, snapshot, sver, query, acts, ui>>

\* the gateway answers request j of mutation i with an error
GatewayFail(i, j) ==
    /\ ops[i].pc = "gw"
    /\ ops[i].writes[j].st = "sent"
    /\ ops' = [ops EXCEPT ![i].writes[j].st = "failed"]
    /\ UNCHANGED <<user, remote, nextId, rver, snapshot, sver, query, acts, ui>>

\* every request of mutation i is answered: mutationFn settles, onSuccess invalidates
Settle(i) ==
    /\ ops[i].pc = "gw"
    /\ \A j \in 1..Len(ops[i].writes) : ops[i].writes[j].st # "sent"
    /\ IF Throws(ops[i])
       THEN /\ ops' = [ops EXCEPT ![i].pc = "done", ![i].result = "GatewayError"]
            /\ UNCHANGED query
       ELSE /\ ops' = [ops EXCEPT ![i].pc = "refetch", ![i].result = "success"]
            /\ query' = Invalidate(query)
    /\ UNCHANGED <<user, remote, nextId, rver, snapshot, sver, acts, ui>>

\* refetchOnWindowFocus of useTodos
RefetchOnFocus ==
    /\ query.st = "idle"
    /\ acts < MaxActs
    /\ acts' = acts + 1
    /\ query' = Invalidate(query)
    /\ UNCHANGED <<user, remote, nextId, rver, snapshot, sver, ops, ui>>

\* the gateway reads the rows for fetchTodos
GatewayList ==
    /\ query.st = "fetching"
    /\ query' = [query EXCEPT !.st = "got", !.ok = TRUE, !.data = ListRows(remote, user),
                              !.ver = rver, !.partial = PartialReorder]
    /\ UNCHANGED <<user, remote, nextId, rver, snapshot, sver, ops, acts, ui>>

GatewayListFail ==
    /\ query.st = "fetching"
    /\ query' = [query EXCEPT !.st = "got", !.ok = FALSE]
    /\ UNCHANGED <<user, remote, nextId, rver, snapshot, sver, ops, acts, ui>>

Resolved(o) == IF o.pc = "refetch" THEN [o EXCEPT !.pc = "done"] ELSE o

\* fetchTodos returns to the query: validated rows become the snapshot
FetchReturn ==
    /\ query.st = "got"
    /\ IF query.ok /\ \A k \in 1..Len(query.data) : TodoSchemaOk(query.data[k])
       THEN /\ snapshot' = query.data
            /\ sver' = query.ver
            /\ query' = IdleQuery
       ELSE /\ query' = [IdleQuery EXCEPT !.failed = TRUE]
            /\ UNCHANGED <<snapshot, sver>>
    /\ ops' = [i \in 1..Len(ops) |-> Resolved(ops[i])]
    /\ UNCHANGED <<user, remote, nextId, rver, acts, ui>>

Gateway ==
    \/ \E i \in 1..Len(ops) : AuthReply(i)
    \/ \E i \in 1..Len(ops) : \E j \in 1..Len(ops[i].writes) : GatewayApply(i, j)
    \/ \E i \in 1..Len(ops) : \E j \in 1..Len(ops[i].writes) : GatewayFail(i, j)
    \/ \E i \in 1..Len(ops) : Settle(i)
    \/ RefetchOnFocus
    \/ GatewayList
    \/ GatewayListFail
    \/ FetchReturn

Next ==
    \/ \E input \in CreateInputs : CallCreate(input)
    \/ \E input \in UpdateInputs : CallUpdate(input)
    \/ \E id \in IdInputs, c \in BOOLEAN : CallToggle(id, c)
    \/ \E id \in IdInputs : CallDelete(id)
    \/ \E todos \in ReorderInputs : CallReorder(todos)
    \/ Gateway

Spec == Init /\ [][Next]_vars

----------------------------------------------------------------------------
(* The page: filter pipeline and ordering engine *)

LowerChar(c) == CASE c = "A" -> "a" [] c = "B" -> "b" [] OTHER -> c

ToLowerCase(t) == [i \in 1..Len(t) |-> LowerChar(t[i])]

Includes(t, q) == \E i \in 0..(Len(t) - Len(q)) : SubSeq(t, i + 1, i + Len(q)) = q

\* a filter in which a tag hit shows the record whatever its status and title
FilteredTodosTagFirst(todos, f, q, tag) ==
    LET Keep(todo) ==
            \/ tag # "" /\ tag \in todo.tags
            \/ /\ tag = ""
               /\ ~(f = "active" /\ todo.completed)
               /\ ~(f = "completed" /\ ~todo.completed)
               /\ ~(q # <<>> /\ ~Includes(ToLowerCase(todo.title), ToLowerCase(q)))
    IN SelectSeq(todos, Keep)

\* filteredTodos
FilteredTodos(todos, f, q, tag) ==
    LET Keep(todo) ==
            /\ ~(f = "active" /\ todo.completed)
            /\ ~(f = "completed" /\ ~todo.completed)
            /\ ~(q # <<>> /\ ~Includes(ToLowerCase(todo.title), ToLowerCase(q)))
            /\ ~(tag # "" /\ tag \notin todo.tags)
    IN SelectSeq(todos, Keep)

IdsOf(todos) == [i \in 1..Len(todos) |-> todos[i].id]

IndexOf(s, x) == CHOOSE i \in 1..Len(s) : s[i] = x

RemoveAt(s, i) == SubSeq(s, 1, i - 1) \o SubSeq(s, i + 1, Len(s))

InsertAt(s, i, x) == SubSeq(s, 1, i - 1) \o <<x>> \o SubSeq(s, i, Len(s))

\* exchanges the two positions instead of moving one element
ArraySwap(array, from, to) ==
    [j \in 1..Len(array) |->
        IF j = from THEN array[to] ELSE IF j = to THEN array[from] ELSE array[j]]

\* arrayMove of @dnd-kit/sortable: splice out at from, splice in at to
ArrayMove(array, from, to) == InsertAt(RemoveAt(array, from), to, array[from])

\* the (id, order) pairs handleDragEnd hands to the reorder mutation
DragUpdates(view, active, over) ==
    LET oldIndex == IndexOf(IdsOf(view), active)
        newIndex == IndexOf(IdsOf(view), over)
        newOrder == ArrayMove(view, oldIndex, newIndex)
    IN [index \in 1..Len(newOrder) |-> [id |-> newOrder[index].id, order |-> index - 1]]

FilterInputs == {"all", "active", "completed"}
SearchInputs == {<<>>, <<"A">>, <<" ", "a">>}
TagInputs == {"", "x"}
NoTarget == 0

UserActs ==
    /\ acts < MaxActs
    /\ acts' = acts + 1

Pending == Cardinality({i \in 1..Len(ops) : ops[i].pc \in {"auth", "gw"}})

SetFilter(f) ==
    /\ UserActs
    /\ filter' = f
    /\ UNCHANGED <<user, remote, nextId, rver, snapshot, sver, query, ops,
                   searchQuery, selectedTag, plan, apply, intake, idleDrops>>

SetSearchQuery(q) ==
    /\ UserActs
    /\ searchQuery' = q
    /\ UNCHANGED <<user, remote, nextId, rver, snapshot, sver, query, ops,
                   filter, selectedTag, plan, apply, intake, idleDrops>>

SetSelectedTag(tag) ==
    /\ UserActs
    /\ selectedTag' = tag
    /\ UNCHANGED <<user, remote, nextId, rver, snapshot, sver, query, ops,
                   filter, searchQuery, plan, apply, intake, idleDrops>>

\* a handleDragEnd that does not compare the two ids
HandleDragEndAnyTarget(active, over) ==
    LET view == FilteredTodos(snapshot, filter, searchQuery, selectedTag) IN
    /\ UserActs
    /\ Pending < MaxPending
    /\ \E i \in 1..Len(view) : view[i].id = active
    /\ over = NoTarget \/ \E i \in 1..Len(view) : view[i].id = over
    /\ IF over # NoTarget
       THEN /\ ops' = Append(ops, [ReorderTodos(DragUpdates(view, active, over))
                                     EXCEPT !.src = "drag", !.todos = snapshot,
                                            !.view = IdsOf(view), !.active = active,
                                            !.over = over])
            /\ idleDrops' = idleDrops
       ELSE /\ ops' = ops
            /\ idleDrops' = idleDrops + 1
    /\ UNCHANGED <<user, remote, nextId, rver, snapshot, sver, query,
                   filter, searchQuery, selectedTag, plan, apply, intake>>

\* handleDragEnd for a drag of record active that ends over record over
HandleDragEnd(active, over) ==
    LET view == FilteredTodos(snapshot, filter, searchQuery, selectedTag) IN
    /\ UserActs
    /\ Pending < MaxPending
    /\ \E i \in 1..Len(view) : view[i].id = active
    /\ over = NoTarget \/ \E i \in 1..Len(view) : view[i].id = over
    /\ IF over # NoTarget /\ active # over
       THEN /\ ops' = Append(ops, [ReorderTodos(DragUpdates(view, active, over))
                                     EXCEPT !.src = "drag", !.todos = snapshot,
                                            !.view = IdsOf(view), !.active = active,
                                            !.over = over])
            /\ idleDrops' = idleDrops
       ELSE /\ ops' = ops
            /\ idleDrops' = idleDrops + 1
    /\ UNCHANGED <<user, remote, nextId, rver, snapshot, sver, query,
                   filter, searchQuery, selectedTag, plan, apply, intake>>

\* the checkbox and the delete button of a visible record
HandleToggle(i) ==
    LET view == FilteredTodos(snapshot, filter, searchQuery, selectedTag) IN
    /\ UserActs
    /\ Pending < MaxPending
    /\ i \in 1..Len(view)
    /\ ops' = Append(ops, ToggleTodo(view[i].id, ~view[i].completed))
    /\ UNCHANGED <<user, remote, nextId, rver, snapshot, sver, query, ui>>

HandleDelete(i) ==
    LET view == FilteredTodos(snapshot, filter, searchQuery, selectedTag) IN
    /\ UserActs
    /\ Pending < MaxPending
    /\ i \in 1..Len(view)
    /\ ops' = Append(ops, DeleteTodo(view[i].id))
    /\ UNCHANGED <<user, remote, nextId, rver, snapshot, sver, query, ui>>

\* todoSchema of the add form, enforced by zodResolver before onSubmit runs
FormOk(data) == Len(data.title) >= 1 /\ Len(data.title) <= TitleMax

\* onSubmit of the add form
OnSubmit(data) ==
    /\ UserActs
    /\ Pending < MaxPending
    /\ FormOk(data)
    /\ ops' = Append(ops, CreateTodo([title |-> data.title, due_at |-> data.due_at,
                                      remind |-> data.remind]))
    /\ UNCHANGED <<user, remote, nextId, rver, snapshot, sver, query, ui>>

----------------------------------------------------------------------------
(* The assistant's plan and the plan merge engine *)

MaxSuggested == 2      \* largest suggested_order the generation service answers
Undef == "undefined"

Incomplete(todos) == LET Open(t) == ~t.completed IN SelectSeq(todos, Open)
Completed(todos) == LET Closed(t) == t.completed IN SelectSeq(todos, Closed)

\* what the generation service may answer to the optimize prompt: one item per
\* listed record, in the listed order
PlanSpace(todos) ==
    LET inc == Incomplete(todos) IN
    {[i \in 1..Len(inc) |->
        [id |-> inc[i].id, suggested_order |-> so[i],
         suggested_due_at |-> x.due, suggested_remind |-> x.remind]] :
        so \in [1..Len(inc) -> 1..MaxSuggested],
        x \in {[due |-> NoDue, remind |-> Undef], [due |-> SomeDue, remind |-> "true"]}}

\* getOptimizedPlan as called by AIPanel.handleSubmit; the plan is kept
Optimize(items) ==
    /\ UserActs
    /\ IF Len(Incomplete(snapshot)) = 0 THEN items = <<>> ELSE items \in PlanSpace(snapshot)
    /\ plan' = items
    /\ panel' = [IdlePanel EXCEPT !.view = "optimize"]
    /\ UNCHANGED <<user, remote, nextId, rver, snapshot, sver, query, ops,
                   filter, searchQuery, selectedTag, apply, ai, idleDrops>>

\* updates in which a null suggested date is handed on as null
PanelUpdatesNullDue(items) ==
    [i \in 1..Len(items) |->
        [id |-> items[i].id,
         order |-> items[i].suggested_order - 1,
         due_at |-> items[i].suggested_due_at,
         remind |-> items[i].suggested_remind]]

\* AIPanel.handleApplyOptimize: the updates handed to the page
PanelUpdates(items) ==
    [i \in 1..Len(items) |->
        [id |-> items[i].id,
         order |-> items[i].suggested_order - 1,
         due_at |-> IF items[i].suggested_due_at = NoDue THEN Undef ELSE items[i].suggested_due_at,
         remind |-> items[i].suggested_remind]]

\* Array.prototype.sort with (a, b) => a.order - b.order; the sort is stable
RECURSIVE SortByOrder(_)
SortByOrder(s) ==
    IF s = <<>> THEN <<>>
    ELSE LET rest == SortByOrder(SubSeq(s, 1, Len(s) - 1))
             x == s[Len(s)]
             n == Cardinality({i \in 1..Len(rest) : rest[i].order <= x.order})
         IN InsertAt(rest, n + 1, x)

\* orderUpdates of TodoPage.handleApplyOptimize
OrderUpdates(updates, todos) ==
    LET incompleteIds == IdsOf(updates)
        completedIds == IdsOf(Completed(todos))
        sorted == SortByOrder(updates)
    IN [i \in 1..Len(sorted) |-> [id |-> sorted[i].id, order |-> sorted[i].order]]
       \o [i \in 1..Len(completedIds) |->
             [id |-> completedIds[i], order |-> Len(incompleteIds) + i - 1]]

\* the input of update.mutateAsync for one plan item
FieldUpdate(u) ==
    [id |-> u.id,
     set |-> (IF u.due_at # Undef THEN {"due_at"} ELSE {})
             \cup (IF u.remind # Undef THEN {"remind"} ELSE {}),
     v |-> [Blank EXCEPT !.due_at = IF u.due_at # Undef THEN u.due_at ELSE NoDue,
                         !.remind = (u.remind = "true")]]

HasFieldUpdate(u) == u.due_at # Undef \/ u.remind # Undef

\* an Apply that does not look at the number of items
HandleApplyOptimizeAnyPlan ==
    LET updates == PanelUpdates(plan) IN
    /\ UserActs
    /\ Pending < MaxPending
    /\ apply.st = "idle"
    /\ panel.view = "optimize"
    /\ plan' = <<>>
    /\ panel' = IdlePanel
    /\ IF Len(snapshot) = 0
       THEN UNCHANGED <<ops, apply>>
       ELSE /\ ops' = Append(ops, [ReorderTodos(OrderUpdates(updates, snapshot))
                                     EXCEPT !.src = "plan", !.todos = snapshot,
                                            !.view = IdsOf(updates), !.items = plan])
            /\ apply' = [st |-> "run", queue |-> SortByOrder(updates), wait |-> Len(ops) + 1]
    /\ UNCHANGED <<user, remote, nextId, rver, snapshot, sver, query,
                   filter, searchQuery, selectedTag, ai, idleDrops>>

\* Apply button: AIPanel.handleApplyOptimize, then TodoPage.handleApplyOptimize
\* up to its first await
HandleApplyOptimize ==
    LET updates == PanelUpdates(plan) IN
    /\ UserActs
    /\ Pending < MaxPending
    /\ apply.st = "idle"
    /\ panel.view = "optimize"
    /\ Len(plan) > 0
    /\ plan' = <<>>
    /\ panel' = IdlePanel
    /\ IF Len(snapshot) = 0
       THEN UNCHANGED <<ops, apply>>
       ELSE /\ ops' = Append(ops, [ReorderTodos(OrderUpdates(updates, snapshot))
                                     EXCEPT !.src = "plan", !.todos = snapshot,
                                            !.view = IdsOf(updates), !.items = plan])
            /\ apply' = [st |-> "run", queue |-> SortByOrder(updates), wait |-> Len(ops) + 1]
    /\ UNCHANGED <<user, remote, nextId, rver, snapshot, sver, query,
                   filter, searchQuery, selectedTag, ai, idleDrops>>

RECURSIVE SkipNoUpdate(_)
SkipNoUpdate(q) ==
    IF q # <<>> /\ ~HasFieldUpdate(Head(q)) THEN SkipNoUpdate(Tail(q)) ELSE q

\* TodoPage.handleApplyOptimize resumes when the awaited mutation has settled
ApplyResume ==
    LET q == SkipNoUpdate(apply.queue) IN
    /\ apply.st = "run"
    /\ ops[apply.wait].pc = "done"
    /\ IF ops[apply.wait].result # "success" \/ q = <<>>
       THEN /\ apply' = IdleApply
            /\ ops' = ops
       ELSE /\ ops' = Append(ops, [UpdateTodo(FieldUpdate(Head(q))) EXCEPT !.src = "plan"])
            /\ apply' = [st |-> "run", queue |-> Tail(q), wait |-> Len(ops) + 1]
    /\ UNCHANGED <<user, remote, nextId, rver, snapshot, sver, query, acts,
                   filter, searchQuery, selectedTag, plan, intake, idleDrops>>

InitUI ==
    /\ user = TRUE
    /\ \E c \in [1..MaxIds -> BOOLEAN] : remote = InitRemote(MaxIds, c)
    /\ nextId = MaxIds + 1
    /\ rver = 0
    /\ snapshot = ListRows(remote, user)
    /\ sver = 0
    /\ query = IdleQuery
    /\ ops = <<>>
    /\ acts = 0
    /\ filter = "all"
    /\ searchQuery = <<>>
    /\ selectedTag = ""
    /\ plan = <<>>
    /\ apply = IdleApply
    /\ panel = IdlePanel
    /\ ai = IdleAi
    /\ idleDrops = 0

NextUI ==
    \/ \E f \in FilterInputs : SetFilter(f)
    \/ \E q \in SearchInputs : SetSearchQuery(q)
    \/ \E tag \in TagInputs : SetSelectedTag(tag)
    \/ \E active \in Ids, over \in Ids \cup {NoTarget} : HandleDragEnd(active, over)
    \/ \E i \in Ids : HandleToggle(i)
    \/ \E i \in Ids : HandleDelete(i)
    \/ \E data \in CreateInputs : OnSubmit(data)
    \/ \E items \in PlanSpace(snapshot) \cup {<<>>} : Optimize(items)
    \/ HandleApplyOptimize
    \/ ApplyResume
    \/ Gateway

SpecUI == InitUI /\ [][NextUI]_vars

----------------------------------------------------------------------------
(* Applying a plan that is already on screen: the page shows InitCount       *)
(* records, the first one dated, and the panel shows the plan the service    *)
(* answered for them; the user may toggle, delete or add a record before     *)
(* pressing Apply.                                                           *)

PlannedRemote(c) == [InitRemote(InitCount, c) EXCEPT ![1].due_at = SomeDue]

\* the service's answers for the listed records: an order per item, and the
\* same kind of suggestion for every item
PlanInputs(todos) ==
    LET inc == Incomplete(todos) IN
    {[i \in 1..Len(inc) |->
        [id |-> inc[i].id, suggested_order |-> so[i],
         suggested_due_at |-> x.due, suggested_remind |-> x.remind]] :
        so \in [1..Len(inc) -> 1..MaxSuggested],
        x \in {[due |-> NoDue, remind |-> Undef], [due |-> NoDue, remind |-> "true"],
               [due |-> SomeDue, remind |-> "false"]}}

InitPlan ==
    /\ user = TRUE
    /\ \E c \in [1..InitCount -> BOOLEAN] : remote = PlannedRemote(c)
    /\ nextId = InitCount + 1
    /\ rver = 0
    /\ snapshot = ListRows(remote, user)
    /\ sver = 0
    /\ query = IdleQuery
    /\ ops = <<>>
    /\ acts = 0
    /\ filter = "all"
    /\ searchQuery = <<>>
    /\ selectedTag = ""
    /\ plan \in PlanInputs(snapshot)
    /\ apply = IdleApply
    /\ panel = [IdlePanel EXCEPT !.view = "optimize"]
    /\ ai = IdleAi
    /\ idleDrops = 0

NextPlan ==
    \/ \E i \in Ids : HandleToggle(i)
    \/ \E i \in Ids : HandleDelete(i)
    \/ \E data \in CreateInputs : OnSubmit(data)
    \/ HandleApplyOptimize
    \/ ApplyResume
    \/ Gateway

SpecPlan == InitPlan /\ [][NextPlan]_vars

----------------------------------------------------------------------------
(* The filter pipeline alone: the page opens on any snapshot of MaxIds      *)
(* records with any status filter, search text and tag, and the user        *)
(* changes them.                                                            *)

InitView ==
    /\ user = TRUE
    /\ \E c \in [1..MaxIds -> BOOLEAN] : remote = InitRemote(MaxIds, c)
    /\ nextId = MaxIds + 1
    /\ rver = 0
    /\ snapshot = ListRows(remote, user)
    /\ sver = 0
    /\ query = IdleQuery
    /\ ops = <<>>
    /\ acts = 0
    /\ filter \in FilterInputs
    /\ searchQuery \in SearchInputs
    /\ selectedTag \in TagInputs
    /\ plan = <<>>
    /\ apply = IdleApply
    /\ panel = IdlePanel
    /\ ai = IdleAi
    /\ idleDrops = 0

NextView ==
    \/ \E f \in FilterInputs : SetFilter(f)
    \/ \E q \in SearchInputs : SetSearchQuery(q)
    \/ \E tag \in TagInputs : SetSelectedTag(tag)

SpecView == InitView /\ [][NextView]_vars

----------------------------------------------------------------------------
(* Natural-language intake: aiService.parseNaturalLanguageTodo and its two  *)
(* callers. A response text is a sequence of lexemes: a fence, the word     *)
(* json, a white-space character, a word of prose, or a whole JSON text     *)
(* together with the value it denotes.                                      *)

NoValue == JDoc("none", JAbsent, JAbsent, JAbsent, JAbsent)
Tok(c) == [c |-> c, v |-> NoValue]
DocTok(v) == [c |-> "json-text", v |-> v]
Fence == Tok("fence")      \* three backticks
JsonTag == Tok("json")
Newline == Tok("LF")     \* line feed
Prose == Tok("Sure")

IsSpace(t) == t.c \in {" ", "LF"}

RECURSIVE SpaceStart(_)
SpaceStart(t) == IF t # <<>> /\ IsSpace(Head(t)) THEN SpaceStart(Tail(t)) ELSE t

RECURSIVE SpaceEnd(_)
SpaceEnd(t) ==
    IF t # <<>> /\ IsSpace(t[Len(t)]) THEN SpaceEnd(SubSeq(t, 1, Len(t) - 1)) ELSE t

\* a parseJson whose pattern takes any opening fence, tagged or not
CleanedAnyFence(raw) ==
    LET a == IF Len(raw) >= 2 /\ raw[1] = Fence /\ raw[2] = JsonTag
             THEN SpaceStart(SubSeq(raw, 3, Len(raw)))
             ELSE IF Len(raw) >= 1 /\ raw[1] = Fence
                  THEN SpaceStart(SubSeq(raw, 2, Len(raw)))
                  ELSE raw
        b == IF a # <<>> /\ a[Len(a)] = Fence
             THEN SpaceEnd(SubSeq(a, 1, Len(a) - 1))
             ELSE a
    IN SpaceEnd(SpaceStart(b))

\* raw.replace(/^```json\s*|\s*```$/g, "").trim()
Cleaned(raw) ==
    LET a == IF Len(raw) >= 2 /\ raw[1] = Fence /\ raw[2] = JsonTag
             THEN SpaceStart(SubSeq(raw, 3, Len(raw)))
             ELSE raw
        b == IF a # <<>> /\ a[Len(a)] = Fence
             THEN SpaceEnd(SubSeq(a, 1, Len(a) - 1))
             ELSE a
    IN SpaceEnd(SpaceStart(b))

\* JSON.parse: the value of the one JSON text, SyntaxError for anything else
JsonParse(t) ==
    IF Len(t) = 1 /\ t[1].c = "json-text" THEN t[1].v ELSE NoJson

\* parseJson
ParseJson(raw) == JsonParse(Cleaned(raw))

\* JavaScript truthiness
Truthy(v) ==
    CASE v.k = "string" -> v.s # <<>>
      [] v.k = "boolean" -> v.b
      [] v.k = "array" -> TRUE
      [] OTHER -> FALSE

Slice(str, n) == SubSeq(str, 1, IF Len(str) < n THEN Len(str) ELSE n)

\* parseNaturalLanguageTodo after the service answered text: err is the
\* error thrown ("none" when parsed is returned)
ParseNaturalLanguageTodo(text, userInput) ==
    LET decoded == ParseJson(text)
        fill == ~Truthy(decoded.title) \/ decoded.tags.k # "array"
        title == IF fill /\ ~Truthy(decoded.title) THEN JStr(Slice(userInput, TitleMax))
                 ELSE decoded.title
        tags == IF fill /\ decoded.tags.k # "array" THEN JArr(<<>>) ELSE decoded.tags
        due == IF Truthy(decoded.due_at) THEN decoded.due_at ELSE JNull
        remind == JBool(Truthy(decoded.remind))
    IN CASE decoded.k = "SyntaxError" -> [err |-> "SyntaxError", json |-> decoded, parsed |-> NoDraft]
         [] decoded.k = "null" -> [err |-> "TypeError", json |-> decoded, parsed |-> NoDraft]
         [] OTHER -> [err |-> "none", json |-> decoded,
                      parsed |-> [title |-> title, tags |-> tags, due_at |-> due, remind |-> remind]]

\* the input of create.mutate for a draft
DraftInput(parsed) ==
    [title |-> parsed.title.s,
     due_at |-> IF parsed.due_at.k = "string" THEN parsed.due_at.s[1] ELSE NoDue,
     remind |-> parsed.remind.b]

\* the input of the catch branch: { title: raw }
PlainInput(raw) == [title |-> raw, due_at |-> NoDue, remind |-> FALSE]

\* create.isPending
CreatePending ==
    \E i \in 1..Len(ops) : ops[i].kind = "create" /\ ops[i].pc \in {"auth", "gw", "refetch"}

\* what the user types into the title box and into the panel
TextInputs == {<<" ", "a">>, <<"b", " ">>}
LongText == Str(TitleMax + 1, "a")

\* the JSON texts the service answers in the flows of the page
FullDoc == JObject(JStr(<<"b">>), JArr(<<"x">>), JStr(<<SomeDue>>), JBool(TRUE))
EmptyDoc == JObject(JAbsent, JAbsent, JAbsent, JAbsent)
LongDoc == JObject(JStr(LongText), JArr(<<>>), JNull, JBool(FALSE))

Bare(v) == <<DocTok(v)>>
Tagged(v) == <<Fence, JsonTag, Newline, DocTok(v), Newline, Fence>>
Untagged(v) == <<Fence, Newline, DocTok(v), Newline, Fence>>

Replies ==
    {Bare(FullDoc), Tagged(FullDoc), Untagged(FullDoc), Bare(EmptyDoc), Bare(LongDoc),
     Bare(JNullDoc), <<Prose>>}

\* handleAiParseAndAdd up to the await of parseNaturalLanguageTodo
HandleAiParseAndAdd(value) ==
    /\ UserActs
    /\ ai.st = "idle"
    /\ ~CreatePending
    /\ Trim(value) # <<>>
    /\ ai' = [IdleAi EXCEPT !.st = "parsing", !.raw = Trim(value)]
    /\ UNCHANGED <<user, remote, nextId, rver, snapshot, sver, query, ops,
                   filter, searchQuery, selectedTag, plan, apply, panel, idleDrops>>

\* the catch branch of handleAiParseAndAdd
Fallback(a, gen) ==
    [a EXCEPT !.st = "fallback", !.gen = gen, !.wait = Len(ops) + 1,
              !.made = Append(a.made, Len(ops) + 1)]

\* the generation service answers text to handleAiParseAndAdd
QuickReply(text) ==
    LET r == ParseNaturalLanguageTodo(text, ai.raw)
        a == [ai EXCEPT !.text = text, !.json = r.json, !.perr = r.err, !.parsedTodo = r.parsed]
    IN
    /\ ai.st = "parsing"
    /\ IF r.err = "none"
       THEN /\ ops' = Append(ops, [CreateTodo(DraftInput(r.parsed)) EXCEPT !.src = "ai"])
            /\ ai' = [a EXCEPT !.st = "creating", !.gen = "ok", !.wait = Len(ops) + 1,
                               !.made = <<Len(ops) + 1>>]
       ELSE /\ ops' = Append(ops, [CreateTodo(PlainInput(ai.raw)) EXCEPT !.src = "fallback"])
            /\ ai' = Fallback(a, "undecodable")
    /\ UNCHANGED <<user, remote, nextId, rver, snapshot, sver, query, acts,
                   filter, searchQuery, selectedTag, plan, apply, panel, idleDrops>>

\* the call of the generation service fails under handleAiParseAndAdd
QuickFail ==
    /\ ai.st = "parsing"
    /\ ops' = Append(ops, [CreateTodo(PlainInput(ai.raw)) EXCEPT !.src = "fallback"])
    /\ ai' = Fallback(ai, "failed")
    /\ UNCHANGED <<user, remote, nextId, rver, snapshot, sver, query, acts,
                   filter, searchQuery, selectedTag, plan, apply, panel, idleDrops>>

\* handleAiParseAndAdd resumes when the awaited create has settled
AiResume ==
    /\ ai.st \in {"creating", "fallback"}
    /\ ops[ai.wait].pc = "done"
    /\ IF ops[ai.wait].result = "success"
       THEN /\ ai' = [ai EXCEPT !.st = "idle"]
            /\ ops' = ops
       ELSE IF ai.st = "creating"
            THEN /\ ops' = Append(ops, [CreateTodo(PlainInput(ai.raw)) EXCEPT !.src = "fallback"])
                 /\ ai' = Fallback(ai, ai.gen)
            ELSE /\ ai' = [ai EXCEPT !.st = "idle", !.thrown = ops[ai.wait].result]
                 /\ ops' = ops
    /\ UNCHANGED <<user, remote, nextId, rver, snapshot, sver, query, acts,
                   filter, searchQuery, selectedTag, plan, apply, panel, idleDrops>>

\* AIPanel.handleSubmit with free text, up to the await
PanelSubmit(value) ==
    /\ UserActs
    /\ panel.view # "loading"
    /\ Trim(value) # <<>>
    /\ panel' = [panel EXCEPT !.view = "loading", !.raw = Trim(value), !.gen = "none",
                              !.made = <<>>, !.mode = "parse", !.todos = <<>>,
                              !.called = TRUE, !.text = <<>>]
    /\ UNCHANGED <<user, remote, nextId, rver, snapshot, sver, query, ops,
                   filter, searchQuery, selectedTag, plan, apply, ai, idleDrops>>

\* the generation service answers text to AIPanel.handleSubmit
PanelReply(text) ==
    LET r == ParseNaturalLanguageTodo(text, panel.raw) IN
    /\ panel.view = "loading"
    /\ panel.mode = "parse"
    /\ panel' = IF r.err = "none"
                THEN [panel EXCEPT !.view = "parsed", !.gen = "ok", !.parsedTodo = r.parsed]
                ELSE [panel EXCEPT !.view = "error", !.gen = "undecodable"]
    /\ UNCHANGED <<user, remote, nextId, rver, snapshot, sver, query, ops, acts,
                   filter, searchQuery, selectedTag, plan, apply, ai, idleDrops>>

\* the call of the generation service fails under AIPanel.handleSubmit
PanelFail ==
    /\ panel.view = "loading"
    /\ panel.mode = "parse"
    /\ panel' = [panel EXCEPT !.view = "error", !.gen = "failed"]
    /\ UNCHANGED <<user, remote, nextId, rver, snapshot, sver, query, ops, acts,
                   filter, searchQuery, selectedTag, plan, apply, ai, idleDrops>>

\* AIPanel.handleAddParsed: "Add to list"
HandleAddParsed ==
    /\ UserActs
    /\ panel.view = "parsed"
    /\ ~CreatePending
    /\ ops' = Append(ops, [CreateTodo(DraftInput(panel.parsedTodo)) EXCEPT !.src = "panel"])
    /\ panel' = [panel EXCEPT !.view = "idle", !.parsedTodo = NoDraft,
                              !.made = <<Len(ops) + 1>>]
    /\ UNCHANGED <<user, remote, nextId, rver, snapshot, sver, query,
                   filter, searchQuery, selectedTag, plan, apply, ai, idleDrops>>

InitAI ==
    /\ user \in BOOLEAN
    /\ remote = InitRemote(InitCount, [i \in 1..InitCount |-> FALSE])
    /\ nextId = InitCount + 1
    /\ rver = 0
    /\ snapshot = ListRows(remote, user)
    /\ sver = 0
    /\ query = IdleQuery
    /\ ops = <<>>
    /\ acts = 0
    /\ filter = "all"
    /\ searchQuery = <<>>
    /\ selectedTag = ""
    /\ plan = <<>>
    /\ apply = IdleApply
    /\ panel = IdlePanel
    /\ ai = IdleAi
    /\ idleDrops = 0

NextAI ==
    \/ \E value \in TextInputs : HandleAiParseAndAdd(value)
    \/ \E text \in Replies : QuickReply(text)
    \/ QuickFail
    \/ AiResume
    \/ \E value \in TextInputs : PanelSubmit(value)
    \/ \E text \in Replies : PanelReply(text)
    \/ PanelFail
    \/ HandleAddParsed
    \/ Gateway

SpecAI == InitAI /\ [][NextAI]_vars

----------------------------------------------------------------------------
(* The assistant's two commands: AIPanel.handleSubmit with @brief or        *)
(* @optimize, aiService.getDailyBrief and aiService.getOptimizedPlan. The    *)
(* page shows no record or MaxIds records, any of them completed.            *)

\* the fixed texts of aiService
NoTasksYet == <<Tok("No tasks yet. Add some to get your daily brief!")>>
AllDone == <<"All done! No tasks to optimize.">>
DefaultSummary == <<"Optimized order and suggestions below.">>

\* a decoded answer to the optimize prompt: items.k "array" has the items in
\* items.s
PlanDoc(k, items, summary) == [k |-> k, items |-> items, summary |-> summary]
PlanObject(items, summary) == PlanDoc("object", items, summary)
PlanNull == PlanDoc("null", JAbsent, JAbsent)

Commands == {"brief", "optimize"}

\* a service that is asked whatever the collection holds
ShortCircuitNever(mode, todos) == FALSE

\* the early returns of getDailyBrief and getOptimizedPlan
ShortCircuit(mode, todos) ==
    IF mode = "brief" THEN Len(todos) = 0 ELSE Len(Incomplete(todos)) = 0

\* AIPanel.handleSubmit with a command, up to the await of the service; the
\* early returns of aiService resolve without it
PanelAsk(mode) ==
    /\ UserActs
    /\ panel.view # "loading"
    /\ IF ShortCircuit(mode, snapshot)
       THEN IF mode = "brief"
            THEN /\ panel' = [panel EXCEPT !.view = "brief", !.mode = mode, !.gen = "none",
                                           !.todos = snapshot, !.called = FALSE,
                                           !.text = <<>>, !.briefText = NoTasksYet]
                 /\ plan' = plan
            ELSE /\ panel' = [panel EXCEPT !.view = "optimize", !.mode = mode, !.gen = "none",
                                           !.todos = snapshot, !.called = FALSE,
                                           !.text = <<>>, !.summary = AllDone]
                 /\ plan' = <<>>
       ELSE /\ panel' = [panel EXCEPT !.view = "loading", !.mode = mode, !.gen = "none",
                                      !.todos = snapshot, !.called = TRUE, !.text = <<>>]
            /\ plan' = plan
    /\ UNCHANGED <<user, remote, nextId, rver, snapshot, sver, query, ops,
                   filter, searchQuery, selectedTag, apply, ai, idleDrops>>

\* the generation service answers text to a command
AskReply(text) ==
    LET decoded == ParseJson(text) IN
    /\ panel.view = "loading"
    /\ panel.mode \in Commands
    /\ IF panel.mode = "brief"
       THEN /\ panel' = [panel EXCEPT !.view = "brief", !.gen = "ok", !.text = text,
                                      !.briefText = SpaceEnd(SpaceStart(text))]
            /\ plan' = plan
       ELSE IF decoded.k \in {"SyntaxError", "null"}
            THEN /\ panel' = [panel EXCEPT !.view = "error", !.gen = "undecodable",
                                           !.text = text]
                 /\ plan' = plan
            ELSE /\ panel' = [panel EXCEPT !.view = "optimize", !.gen = "ok", !.text = text,
                                           !.summary = IF Truthy(decoded.summary)
                                                       THEN decoded.summary.s
                                                       ELSE DefaultSummary]
                 /\ plan' = IF decoded.items.k = "array" THEN decoded.items.s ELSE <<>>
    /\ UNCHANGED <<user, remote, nextId, rver, snapshot, sver, query, ops, acts,
                   filter, searchQuery, selectedTag, apply, ai, idleDrops>>

\* the call of the generation service fails under a command
AskFail ==
    /\ panel.view = "loading"
    /\ panel.mode \in Commands
    /\ panel' = [panel EXCEPT !.view = "error", !.gen = "failed"]
    /\ UNCHANGED <<user, remote, nextId, rver, snapshot, sver, query, ops, acts,
                   filter, searchQuery, selectedTag, plan, apply, ai, idleDrops>>

\* what the service answers to a command over the records todos
ItemsValues(todos) == {JArr(items) : items \in PlanSpace(todos)} \cup {JAbsent, JBool(TRUE)}
SummaryValues == {JStr(<<"s">>), JAbsent}

AskReplies(todos) ==
    {Bare(PlanObject(i, m)) : i \in ItemsValues(todos), m \in SummaryValues}
    \cup {Tagged(PlanObject(i, JStr(<<"s">>))) : i \in ItemsValues(todos)}
    \cup {Bare(PlanNull), <<Prose>>, <<Prose, Newline>>, <<>>}

InitAssist ==
    /\ user = TRUE
    /\ \E n \in {0, MaxIds} : \E c \in [1..n -> BOOLEAN] :
          /\ remote = InitRemote(n, c)
          /\ nextId = n + 1
    /\ rver = 0
    /\ snapshot = ListRows(remote, user)
    /\ sver = 0
    /\ query = IdleQuery
    /\ ops = <<>>
    /\ acts = 0
    /\ filter = "all"
    /\ searchQuery = <<>>
    /\ selectedTag = ""
    /\ plan = <<>>
    /\ apply = IdleApply
    /\ panel = IdlePanel
    /\ ai = IdleAi
    /\ idleDrops = 0

NextAssist ==
    \/ \E mode \in Commands : PanelAsk(mode)
    \/ \E text \in AskReplies(panel.todos) : AskReply(text)
    \/ AskFail

SpecAssist == InitAssist /\ [][NextAssist]_vars

----------------------------------------------------------------------------
(* The adapter alone: parseNaturalLanguageTodo is awaiting the service for  *)
(* some user text, and the service answers any of the texts below.          *)

TitleValues == {JAbsent, JStr(<<>>), JStr(<<"b">>), JStr(LongText)}
TagsValues == {JAbsent, JArr(<<"x">>), JStr(<<"x">>)}
DueValues == {JAbsent, JNull, JStr(<<SomeDue>>)}
RemindValues == {JAbsent, JBool(TRUE), JBool(FALSE)}

DocValues ==
    {JNullDoc} \cup {JObject(t, g, d, r) :
                        t \in TitleValues, g \in TagsValues, d \in DueValues, r \in RemindValues}

AllReplies ==
    {Bare(v) : v \in DocValues} \cup {Tagged(v) : v \in DocValues}
    \cup {Untagged(v) : v \in DocValues} \cup {<<Prose>>, <<>>}

InitParse ==
    /\ user = TRUE
    /\ remote = InitRemote(InitCount, [i \in 1..InitCount |-> FALSE])
    /\ nextId = InitCount + 1
    /\ rver = 0
    /\ snapshot = ListRows(remote, user)
    /\ sver = 0
    /\ query = IdleQuery
    /\ ops = <<>>
    /\ acts = 1
    /\ filter = "all"
    /\ searchQuery = <<>>
    /\ selectedTag = ""
    /\ plan = <<>>
    /\ apply = IdleApply
    /\ panel = IdlePanel
    /\ \E raw \in {<<"a">>, LongText} : ai = [IdleAi EXCEPT !.st = "parsing", !.raw = raw]
    /\ idleDrops = 0

NextParse == \E text \in AllReplies : QuickReply(text)

SpecParse == InitParse /\ [][NextParse]_vars

----------------------------------------------------------------------------
(* Properties of the store *)

OpIds == 1..Len(ops)
WriteIds(i) == 1..Len(ops[i].writes)
Settled(o) == o.pc \in {"refetch", "done"}
AnyFailed(o) == \E j \in 1..Len(o.writes) : o.writes[j].st = "failed"

\* the input has an empty or oversized title or a malformed record id
InvalidInput(o) ==
    \/ o.hasTitle /\ (Len(o.title) = 0 \/ Len(o.title) > TitleMax)
    \/ o.kind \in {"update", "toggle", "delete"} /\ ~IsUuid(o.id)
    \/ o.kind = "reorder" /\ \E k \in 1..Len(o.pairs) : ~IsUuid(o.pairs[k].id)

C5_BulkAllOrNothing ==
    \A i \in OpIds :
        ops[i].kind = "reorder" /\ Settled(ops[i]) =>
            \/ \A j \in WriteIds(i) : ops[i].writes[j].st = "applied"
            \/ \A j \in WriteIds(i) : ops[i].writes[j].st # "applied"

\* C7: a mutation with an invalid input ends in ValidationError without a
\* user lookup and without a gateway request.
C7_ValidationBeforeNetwork ==
    \A i \in OpIds :
        InvalidInput(ops[i]) =>
            /\ ops[i].result = "ValidationError"
            /\ ~ops[i].auth
            /\ ops[i].gw = 0

\* C8: without an owner principal a mutation (with valid input) makes no
\* gateway request and ends in NotAuthenticated.
C8_NotAuthenticatedBeforeNetwork ==
    ~user =>
        \A i \in OpIds :
            ~InvalidInput(ops[i]) =>
                /\ ops[i].gw = 0
                /\ ops[i].pc = "done" => ops[i].result = "NotAuthenticated"

\* C9: a mutation one of whose gateway requests was answered with an error
\* settles as a failure, and each request is made once.
C9_RemoteErrorSurfaces ==
    \A i \in OpIds :
        /\ ops[i].gw <= Len(ops[i].writes)
        /\ (Settled(ops[i]) /\ AnyFailed(ops[i])) => ops[i].result = "GatewayError"

\* the applied writes of mutation i to record r
AppliedTo(i, r) ==
    {j \in WriteIds(i) : ops[i].writes[j].id = r /\ ops[i].writes[j].st = "applied"}

\* C10: when a reorder and a field update (toggle or edit) have both been
\* applied to a record, in either order and with no other writer of that
\* record, the record carries the reorder's order and the update's values;
\* and a field update can be issued while a reorder is in flight.
C10_RaceKeepsBothFields ==
    /\ \A i \in OpIds, k \in OpIds :
          LET r == ops[k].id IN
          (/\ ops[i].kind = "reorder"
           /\ ops[k].kind \in {"toggle", "update"}
           /\ AppliedTo(i, r) # {}
           /\ AppliedTo(k, r) # {}
           /\ \A n \in OpIds \ {i, k} :
                 \A j \in WriteIds(n) :
                    ops[n].writes[j].st = "applied" =>
                        ops[n].writes[j].id # r /\ ops[n].writes[j].op # "insert")
          => /\ r \in DOMAIN remote
             /\ \E j \in AppliedTo(i, r) : remote[r].order = ops[i].writes[j].v.order
             /\ \A f \in ops[k].writes[1].set : remote[r][f] = ops[k].writes[1].v[f]
    /\ \A i \in OpIds :
          (ops[i].kind = "reorder" /\ ops[i].pc = "gw" /\ acts < MaxActs)
          => \A r \in 1..InitCount : ENABLED CallToggle(r, TRUE)

\* both writes to one record are applied while both mutations are in flight
C10_Witness ==
    \E i \in OpIds, k \in OpIds :
        /\ ops[i].kind = "reorder"
        /\ ops[k].kind \in {"toggle", "update"}
        /\ ops[i].pc = "gw"
        /\ ops[k].pc = "gw"
        /\ AppliedTo(i, ops[k].id) # {}
        /\ AppliedTo(k, ops[k].id) # {}

----------------------------------------------------------------------------
(* Properties of the ordering engine and of the plan merge engine *)

AllApplied(i) == \A j \in WriteIds(i) : ops[i].writes[j].st = "applied"

\* no other mutation has changed an order, a completion or the set of records
Quiet(i) ==
    \A n \in OpIds \ {i} :
        \A j \in WriteIds(n) :
            ops[n].writes[j].st = "applied" =>
                /\ ops[n].writes[j].op = "update"
                /\ ops[n].writes[j].set \cap {"order", "completed"} = {}

Range(s) == {s[j] : j \in 1..Len(s)}

Without(s, x) == LET Other(y) == y # x IN SelectSeq(s, Other)

\* the plan has one item for each incomplete record of the collection
PlanCovers(i) ==
    LET inc == IdsOf(Incomplete(ops[i].todos)) IN
    /\ Range(ops[i].view) = Range(inc)
    /\ Len(ops[i].view) = Len(inc)

\* C1: after a plan covering every incomplete record has been merged (all its
\* order writes applied), the order values of the collection of n = k + m
\* records are exactly 0..n-1, each used once.
C1_MergeOrdersContiguous ==
    \A i \in OpIds :
        (/\ ops[i].src = "plan"
         /\ ops[i].kind = "reorder"
         /\ Settled(ops[i])
         /\ AllApplied(i)
         /\ PlanCovers(i)
         /\ Quiet(i))
        => {remote[r].order : r \in DOMAIN remote} = 0..(Cardinality(DOMAIN remote) - 1)

\* C2: after a drag in a view that is a strict subset of the collection (all
\* its order writes applied), no record outside the view has the order value
\* of a record of the view.
C2_NoCollisionWithHidden ==
    \A i \in OpIds :
        (/\ ops[i].src = "drag"
         /\ Settled(ops[i])
         /\ AllApplied(i)
         /\ Len(ops[i].view) < Len(ops[i].todos)
         /\ Quiet(i))
        => \A v \in Range(ops[i].view) : \A h \in DOMAIN remote \ Range(ops[i].view) :
              remote[v].order # remote[h].order

\* C3: the pairs a drag of record active onto record over writes for a view:
\* one pair per visible record, the pair at position j has order j - 1,
\* active stands at the position over had in the view, and the other records
\* are in the order they had in the view; one order write is sent per pair.
C3_DragWritesPositions ==
    \A i \in OpIds :
        ops[i].src = "drag" =>
            LET o == ops[i]
                ids == [j \in 1..Len(o.pairs) |-> o.pairs[j].id]
            IN /\ Len(o.pairs) = Len(o.view)
               /\ \A j \in 1..Len(o.pairs) : o.pairs[j].order = j - 1
               /\ ids[IndexOf(o.view, o.over)] = o.active
               /\ Without(ids, o.active) = Without(o.view, o.active)
               /\ Len(o.writes) = Len(o.pairs)
               /\ \A j \in 1..Len(o.pairs) :
                     /\ o.writes[j].id = o.pairs[j].id
                     /\ o.writes[j].set = {"order"}
                     /\ o.writes[j].v.order = o.pairs[j].order

\* a drag of the first record of a view of three onto the last one
C3_Witness ==
    \E i \in OpIds :
        /\ ops[i].src = "drag"
        /\ Len(ops[i].view) = 3
        /\ ops[i].active = ops[i].view[1]
        /\ ops[i].over = ops[i].view[3]

\* C6: no read of the remote collection sees some but not all of the order
\* assignments of a drag.
C6_DragNotReadPartially ==
    \A i \in query.partial : ops[i].src # "drag"

\* C11: a step in which the gateway carries out an order write of a reorder
\* (from a drag or from a plan merge) leaves the set of records and every
\* record's title, tags, due_at, completed and remind as they were.
C11_ReorderKeepsOtherFields ==
    [][\A i \in OpIds : \A j \in WriteIds(i) :
          (/\ ops[i].kind = "reorder"
           /\ ops[i].writes[j].st = "sent"
           /\ ops'[i].writes[j].st = "applied")
          => /\ DOMAIN remote' = DOMAIN remote
             /\ \A r \in DOMAIN remote : \A f \in Fields \ {"order"} :
                   remote'[r][f] = remote[r][f]]_vars

\* a drag has given a completed, tagged record a new order value
C11_Witness ==
    \E i \in OpIds : \E j \in WriteIds(i) :
        LET w == ops[i].writes[j] IN
        /\ ops[i].src = "drag"
        /\ w.st = "applied"
        /\ w.id \in DOMAIN remote
        /\ remote[w.id].completed
        /\ remote[w.id].tags # {}
        /\ remote[w.id].order = w.v.order
        /\ w.v.order # w.id - 1

\* C12: a drag that ends on the dragged record itself or over no target
\* issues no mutation and leaves the remote collection, the snapshot and the
\* query as they were.
C12_IdleDragWritesNothing ==
    [][\A active \in Ids : \A over \in {active, NoTarget} :
          HandleDragEnd(active, over) => UNCHANGED <<ops, remote, snapshot, sver, query>>]_vars

\* such drags have ended and nothing was ever sent
C12_Witness ==
    /\ idleDrops = MaxActs
    /\ ops = <<>>
    /\ snapshot = ListRows(remote, user)

\* C13: while the panel shows a plan without items, Apply cannot start a
\* merge, and no order write or field update of a merge stems from a plan
\* without items.
C13_EmptyPlanNoOp ==
    /\ (panel.view = "optimize" /\ plan = <<>>) => ~ENABLED HandleApplyOptimize
    /\ \A i \in OpIds :
          (ops[i].src = "plan" /\ ops[i].kind = "reorder") => Len(ops[i].view) > 0

\* the plan for a collection of completed records is shown, the page could
\* take another mutation, and every record has the order it started with
C13_Witness ==
    /\ panel.view = "optimize"
    /\ plan = <<>>
    /\ Len(snapshot) = MaxIds
    /\ \A k \in 1..Len(snapshot) : snapshot[k].completed
    /\ acts < MaxActs
    /\ apply.st = "idle"
    /\ ops = <<>>
    /\ \A r \in DOMAIN remote : remote[r].order = r - 1

\* C16: every list a read delivers is ascending by order, and of two records
\* with the same order the one created later comes first.
C16_SnapshotSorted ==
    LET Sorted(list) ==
            \A k \in 1..(Len(list) - 1) :
                \/ list[k].order < list[k + 1].order
                \/ list[k].order = list[k + 1].order /\ list[k].id > list[k + 1].id
    IN /\ Sorted(snapshot)
       /\ (query.st = "got" /\ query.ok) => Sorted(query.data)

\* a delivered snapshot holds a created record that shares its order value
\* with an older one
C16_Witness ==
    \E k \in 1..(Len(snapshot) - 1) :
        /\ snapshot[k].order = snapshot[k + 1].order
        /\ snapshot[k].id > InitCount

----------------------------------------------------------------------------
(* Properties of the filter pipeline *)

\* what each predicate asks of a record; "all", the empty text and the empty
\* tag stand for an absent predicate
StatusHolds(todo, f) == f = "all" \/ (f = "active" /\ ~todo.completed) \/ (f = "completed" /\ todo.completed)
SearchHolds(todo, q) == q = <<>> \/ Includes(ToLowerCase(todo.title), ToLowerCase(q))
TagHolds(todo, tag) == tag = "" \/ tag \in todo.tags

\* applying the three predicates one after the other, in the order given by p
OneByOne(todos, f, q, tag, p) ==
    LET Pass(list, n) ==
            CASE n = 1 -> FilteredTodos(list, f, <<>>, "")
              [] n = 2 -> FilteredTodos(list, "all", q, "")
              [] n = 3 -> FilteredTodos(list, "all", <<>>, tag)
    IN Pass(Pass(Pass(todos, p[1]), p[2]), p[3])

Orders == {p \in [1..3 -> 1..3] : \A a, b \in 1..3 : p[a] = p[b] => a = b}

\* C14: the view of the snapshot under the page's status, search and tag
\* settings takes its records from increasing positions of the snapshot,
\* holds exactly the records that satisfy every predicate (an absent one
\* passes all of them), and equals the result of applying the three
\* predicates one at a time in any order.
C14_ViewIsFilteredSubsequence ==
    LET view == FilteredTodos(snapshot, filter, searchQuery, selectedTag) IN
    /\ \E pos \in [1..Len(view) -> 1..Len(snapshot)] :
          /\ \A k \in 1..Len(view) : view[k] = snapshot[pos[k]]
          /\ \A k \in 1..(Len(view) - 1) : pos[k] < pos[k + 1]
    /\ \A k \in 1..Len(snapshot) :
          (\E n \in 1..Len(view) : view[n] = snapshot[k])
          <=> /\ StatusHolds(snapshot[k], filter)
              /\ SearchHolds(snapshot[k], searchQuery)
              /\ TagHolds(snapshot[k], selectedTag)
    /\ \A p \in Orders : OneByOne(snapshot, filter, searchQuery, selectedTag, p) = view

\* all three predicates are set and the view is a proper, non-empty part of
\* the snapshot
C14_Witness ==
    LET view == FilteredTodos(snapshot, filter, searchQuery, selectedTag) IN
    /\ acts > 0
    /\ filter # "all"
    /\ searchQuery # <<>>
    /\ selectedTag # ""
    /\ Len(view) > 0
    /\ Len(view) < Len(snapshot)

\* C15: a record that passes the status and tag predicates and whose title
\* holds the search text, leading whitespace of the text and case aside, is
\* in the view.
C15_SearchIgnoresLeadingSpace ==
    LET view == FilteredTodos(snapshot, filter, searchQuery, selectedTag) IN
    \A k \in 1..Len(snapshot) :
        (/\ StatusHolds(snapshot[k], filter)
         /\ TagHolds(snapshot[k], selectedTag)
         /\ Includes(ToLowerCase(snapshot[k].title), ToLowerCase(TrimStart(searchQuery))))
        => \E n \in 1..Len(view) : view[n] = snapshot[k]

----------------------------------------------------------------------------
(* Properties of the natural-language intake *)

\* a decoded title the draft can take over
Usable(v) == v.k = "string" /\ v.s # <<>>

\* C17: when the service's response was decodable, parse returned a draft
\* whose title is the decoded title if usable and else the first 200
\* characters of the user's text, whose tags are the decoded tags if an
\* array and else the empty array, whose due_at is the decoded value or null
\* when missing, and whose remind is a boolean, false when the response
\* has none.
C17_ParseFallbacks ==
    (ai.gen # "none" /\ ai.json.k # "SyntaxError") =>
        /\ ai.perr = "none"
        /\ ai.parsedTodo.title = IF Usable(ai.json.title) THEN ai.json.title
                                 ELSE JStr(Slice(ai.raw, TitleMax))
        /\ ai.parsedTodo.tags = IF ai.json.tags.k = "array" THEN ai.json.tags ELSE JArr(<<>>)
        /\ ai.parsedTodo.due_at = IF ai.json.due_at.k = "absent" THEN JNull ELSE ai.json.due_at
        /\ ai.parsedTodo.remind.k = "boolean"
        /\ ai.json.remind.k = "absent" => ai.parsedTodo.remind = JBool(FALSE)

\* C18: a response that is a JSON text between fences, the opening fence
\* with or without the tag json, decodes to what the JSON text alone
\* decodes to.
C18_FencedDecodesAsBare ==
    \A v \in DocValues :
        (ai.gen # "none" /\ ai.text \in {Tagged(v), Untagged(v)}) => ai.json = ParseJson(Bare(v))

\* the mutations made for one user action are one create of a plain task
\* titled raw
OnePlainCreate(made, raw) ==
    /\ Len(made) = 1
    /\ ops[made[1]].kind = "create"
    /\ ops[made[1]].title = raw
    /\ \A j \in 1..Len(ops[made[1]].writes) :
          LET w == ops[made[1]].writes[j] IN w.v.due_at = NoDue /\ ~w.v.remind

\* C19: once a quick-add or a free-text submit of the panel whose
\* generation call failed, or whose response could not be decoded, is over,
\* the caller has made exactly one create, of a plain task titled with the
\* trimmed input.
C19_ParseFailureFallsBack ==
    /\ (ai.gen \in {"failed", "undecodable"} /\ ai.st \in {"fallback", "idle"})
          => OnePlainCreate(ai.made, ai.raw)
    /\ (panel.gen \in {"failed", "undecodable"} /\ panel.view # "loading")
          => OnePlainCreate(panel.made, panel.raw)

\* C20: a create of a quick-add that ended in ValidationError or
\* NotAuthenticated is the last create made for that user action, and the
\* error is what the handler ends with; the panel makes at most one create
\* per draft.
C20_CreateErrorNotRetried ==
    /\ \A n \in 1..Len(ai.made) :
          ops[ai.made[n]].result \in {"ValidationError", "NotAuthenticated"} =>
              /\ n = Len(ai.made)
              /\ ai.st = "idle" => ai.thrown = ops[ai.made[n]].result
    /\ Len(panel.made) <= 1

----------------------------------------------------------------------------
(* Further properties of the plan merge engine and of the store *)

\* C24: in the order write of a plan merge the k plan items come first, as a
\* rearrangement of the plan's items that is ascending by the written value
\* with equal values in the plan's order, and the item at position j of
\* that list is written the order j - 1.
C24_ItemsGetRanks ==
    \A i \in OpIds :
        (ops[i].src = "plan" /\ ops[i].kind = "reorder") =>
            LET o == ops[i]
                k == Len(o.view)
            IN /\ Len(o.pairs) >= k
               /\ {o.pairs[j].id : j \in 1..k} = Range(o.view)
               /\ \A a, b \in 1..k :
                     (a < b /\ o.pairs[a].order = o.pairs[b].order)
                     => IndexOf(o.view, o.pairs[a].id) < IndexOf(o.view, o.pairs[b].id)
               /\ \A j \in 1..k : o.pairs[j].order = j - 1

\* C27: every record of the remote collection has a title of 1 to 200
\* characters, and no delivered list holds a record that fails validation.
C27_StoredTitlesValid ==
    /\ \A r \in DOMAIN remote : ValidTitle(remote[r].title)
    /\ (query.st = "got" /\ query.ok) =>
          \A k \in 1..Len(query.data) : TodoSchemaOk(query.data[k])

\* no mutation is awaiting anything and no fetch is in flight
NothingInFlight == query.st = "idle" /\ \A i \in OpIds : ops[i].pc = "done"

PlanWrites == {i \in OpIds : ops[i].src = "plan" /\ ops[i].kind = "reorder"}

\* C25: in the order write of a plan merge over a snapshot with k incomplete
\* records, the i-th completed record of that snapshot (counting from 0) is
\* written the order k + i.
C25_CompletedFollowIncomplete ==
    \A n \in PlanWrites :
        LET o == ops[n]
            k == Len(Incomplete(o.todos))
            done == Completed(o.todos)
        IN \A i \in 1..Len(done) :
              /\ \E a \in 1..Len(o.pairs) : o.pairs[a].id = done[i].id
              /\ \A a \in 1..Len(o.pairs) :
                    o.pairs[a].id = done[i].id => o.pairs[a].order = k + i - 1

\* the plan item carries a due date or a remind flag
Carries(item) == item.suggested_due_at # NoDue \/ item.suggested_remind # Undef

\* C26: when a plan application has run to its end, a field update has been
\* issued for every plan item that carries a suggestion, and every order
\* write of the merge was sent whatever became of the field updates.
C26_EveryFieldUpdateIssued ==
    \A n \in PlanWrites :
        (apply.st = "idle") =>
            /\ Len(ops[n].writes) = Len(ops[n].pairs)
            /\ \A a \in 1..Len(ops[n].items) :
                  Carries(ops[n].items[a]) =>
                     \E m \in OpIds :
                        /\ m > n
                        /\ ops[m].src = "plan"
                        /\ ops[m].kind = "update"
                        /\ ops[m].id = ops[n].items[a].id

\* C28: in the order write of one plan application no record id appears twice.
C28_PlanWriteIdsDistinct ==
    \A n \in PlanWrites :
        \A a, b \in 1..Len(ops[n].pairs) :
            a # b => ops[n].pairs[a].id # ops[n].pairs[b].id

\* the plan whose application issued mutation i
PlanOf(i) ==
    LET n == CHOOSE n \in PlanWrites : n <= i /\ \A m \in PlanWrites : m <= i => m <= n
    IN ops[n].items

\* request j of mutation i is carried out in this step
AppliedNow(i, j) ==
    /\ i \in OpIds
    /\ j \in WriteIds(i)
    /\ ops[i].writes[j].st = "sent"
    /\ Len(ops') >= i
    /\ ops'[i].writes[j].st = "applied"

\* C30: a write of a plan application (order write or field update) that is
\* carried out leaves title, tags and completed of every record as they
\* were, removes no record, and leaves due_at of the written record as it
\* was when the plan's item for that record suggests no due date.
C30_PlanKeepsOtherFields ==
    [][\A i \in OpIds : \A j \in WriteIds(i) :
          (ops[i].src = "plan" /\ AppliedNow(i, j)) =>
             /\ DOMAIN remote' = DOMAIN remote
             /\ \A r \in DOMAIN remote :
                   /\ remote'[r].title = remote[r].title
                   /\ remote'[r].tags = remote[r].tags
                   /\ remote'[r].completed = remote[r].completed
                   /\ (\A a \in 1..Len(PlanOf(i)) :
                          (PlanOf(i)[a].id = r /\ PlanOf(i)[a].suggested_due_at = NoDue)
                          => remote'[r].due_at = remote[r].due_at)]_vars

\* the remind flag of a dated record was written by a plan whose item for it
\* suggests no due date, and the record still has its date
C30_Witness ==
    \E i \in OpIds :
        /\ ops[i].src = "plan"
        /\ ops[i].kind = "update"
        /\ ops[i].writes[1].st = "applied"
        /\ ops[i].id \in DOMAIN remote
        /\ remote[ops[i].id].due_at = SomeDue
        /\ remote[ops[i].id].remind
        /\ \E a \in 1..Len(PlanOf(i)) :
              /\ PlanOf(i)[a].id = ops[i].id
              /\ PlanOf(i)[a].suggested_due_at = NoDue
              /\ PlanOf(i)[a].suggested_remind = "true"

\* C21: a daily brief asked over zero records shows the fixed no-tasks text,
\* an optimize asked over zero incomplete records shows a plan without
\* items, and in neither case is the generation service called.
C21_EmptyShortCircuits ==
    /\ (panel.mode = "brief" /\ Len(panel.todos) = 0) =>
          panel.view = "brief" /\ panel.briefText = NoTasksYet /\ ~panel.called
    /\ (panel.mode = "optimize" /\ Len(Incomplete(panel.todos)) = 0) =>
          panel.view = "optimize" /\ plan = <<>> /\ ~panel.called

\* a brief asked over no record has shown the fixed text, and an optimize
\* asked after it shows the plan without items; the service was not called
C21_Witness ==
    /\ panel.mode = "optimize"
    /\ panel.todos = <<>>
    /\ panel.view = "optimize"
    /\ panel.summary = AllDone
    /\ plan = <<>>
    /\ panel.briefText = NoTasksYet
    /\ ~panel.called

\* C22: for a command asked over a non-empty collection whose records are
\* all completed, the generation service is not called.
C22_AllCompletedShortCircuits ==
    (panel.mode \in Commands /\ Len(panel.todos) > 0 /\ Len(Incomplete(panel.todos)) = 0)
    => ~panel.called

\* the answer decodes to an object whose items is a list
UsablePlan(text) ==
    LET decoded == ParseJson(text)
    IN decoded.k = "object" /\ decoded.items.k = "array"

\* C23: when the service has failed or answered a command with content that
\* is not a usable plan, the panel is in the error state.
C23_GenerationFailureIsError ==
    (panel.mode \in Commands /\ panel.called /\ panel.view # "loading") =>
        ((panel.gen = "failed" \/ (panel.mode = "optimize" /\ ~UsablePlan(panel.text)))
         => panel.view = "error")

====
